---- MODULE Spec2Model ----
(***************************************************************************)
(* Layout region extraction of surya/layout.py: one image of               *)
(* batch_layout_detection, through get_regions_from_detection_result or    *)
(* get_regions.                                                            *)
(*                                                                         *)
(* Heatmap values are probabilities counted in tenths (10 is 1.0), so the  *)
(* thresholds .5 and .3 of the source are 5 and 3.  A confidence is the    *)
(* exact quotient num/den, kept as the record [num, den].  Python index i  *)
(* of a list is index i+1 of the sequence that models it; arrays and       *)
(* id2label keep their 0-based indices.                                    *)
(***************************************************************************)
EXTENDS Integers, Sequences, FiniteSets, TLC

VARIABLES pc, preds, heatmaps, orig_size, id2label, detection_result,
          vertical_line_width, segment_assignment, logits,
          vertical_line_bboxes, line_bboxes, heatmap_idx, bboxes,
          integral_image, detected_boxes, box_lines, used_lines, new_boxes,
          layout_bboxes, result, arr, avg_box, avg_result

vars == <<pc, preds, heatmaps, orig_size, id2label, detection_result,
          vertical_line_width, segment_assignment, logits,
          vertical_line_bboxes, line_bboxes, heatmap_idx, bboxes,
          integral_image, detected_boxes, box_lines, used_lines, new_boxes,
          layout_bboxes, result, arr, avg_box, avg_result>>

(***************************************************************************)
(* Bounds of the model and constants of the program.                       *)
(***************************************************************************)
MaxDet == 1
MaxLines == 2

AreaMin == 25
OutAreaMin == 16
BlankThreshold == 5
ConfidenceMin == 3
OverlapMin == 5
DefaultVerticalLineWidth == 20
UnusedLineConfidence == 5

None == [none |-> TRUE]

Min(a, b) == IF a <= b THEN a ELSE b
Max(a, b) == IF a >= b THEN a ELSE b

RECURSIVE SeqMin(_)
SeqMin(s) == IF Len(s) = 1 THEN s[1] ELSE Min(s[1], SeqMin(Tail(s)))

RECURSIVE SeqMax(_)
SeqMax(s) == IF Len(s) = 1 THEN s[1] ELSE Max(s[1], SeqMax(Tail(s)))

(***************************************************************************)
(* Arrays: a 2D array is a function row -> column -> value, rows 0..H-1    *)
(* and columns 0..W-1; shape is (H, W).                                    *)
(***************************************************************************)
Height(a) == Cardinality(DOMAIN a)
Width(a) == Cardinality(DOMAIN a[0])

\* Python's int(c * (num / den)) for c >= 0: the product truncated.
Scale(c, num, den) == (c * num) \div den

(***************************************************************************)
(* compute_integral_image and bbox_avg.                                    *)
(***************************************************************************)
CumSum0(a) ==
  LET c[y \in DOMAIN a] ==
        [x \in DOMAIN a[0] |-> IF y = 0 THEN a[0][x] ELSE c[y - 1][x] + a[y][x]]
  IN  c

CumSum1(a) ==
  [y \in DOMAIN a |->
     LET r[x \in DOMAIN a[0]] == IF x = 0 THEN a[y][0] ELSE r[x - 1] + a[y][x]
     IN  r]

compute_integral_image(a) == CumSum1(CumSum0(a))

bbox_sum(ii, x1, y1, x2, y2) ==
  LET total == ii[y2][x2]
      above == IF y1 > 0 THEN ii[y1 - 1][x2] ELSE 0
      left == IF x1 > 0 THEN ii[y2][x1 - 1] ELSE 0
      above_left == IF x1 > 0 /\ y1 > 0 THEN ii[y1 - 1][x1 - 1] ELSE 0
  IN  total - above - left + above_left

bbox_area(x1, y1, x2, y2) == (x2 - x1) * (y2 - y1)

bbox_avg(ii, x1, y1, x2, y2) ==
  IF bbox_area(x1, y1, x2, y2) = 0
    THEN [num |-> 0, den |-> 1]
    ELSE [num |-> bbox_sum(ii, x1, y1, x2, y2), den |-> bbox_area(x1, y1, x2, y2)]

(***************************************************************************)
(* Boxes of surya.schema: a polygon is four corners <<x, y>>.              *)
(***************************************************************************)
Rect(x1, y1, x2, y2) == <<<<x1, y1>>, <<x2, y1>>, <<x2, y2>>, <<x1, y2>>>>

PolyBbox(p) ==
  <<Min(p[1][1], p[2][1]), Min(p[1][2], p[3][2]),
    Max(p[1][1], p[2][1]), Max(p[1][2], p[3][2])>>

BboxArea(b) == (b[3] - b[1]) * (b[4] - b[2])

PolyArea(p) == BboxArea(PolyBbox(p))

\* PolygonBox.rescale(processor_size, image_size), sizes as <<width, height>>
RescalePoly(p, from, to) ==
  [k \in 1..4 |-> <<Scale(p[k][1], to[1], from[1]), Scale(p[k][2], to[2], from[2])>>]

\* Bbox.rescale_bbox(orig_size, new_size)
RescaleBbox(b, from, to) ==
  <<Scale(b[1], to[1], from[1]), Scale(b[2], to[2], from[2]),
    Scale(b[3], to[1], from[1]), Scale(b[4], to[2], from[2])>>

\* PolygonBox.fit_to_bounds(bounds)
FitToBounds(p, bounds) ==
  [k \in 1..4 |-> <<Max(Min(p[k][1], bounds[3]), bounds[1]),
                    Max(Min(p[k][2], bounds[4]), bounds[2])>>]

IntersectionArea(a, b) ==
  Max(0, Min(a[3], b[3]) - Max(a[1], b[1])) * Max(0, Min(a[4], b[4]) - Max(a[2], b[2]))

\* self.intersection_pct(other) >= .5, self and other as bboxes
OverlapsHalf(self, other) ==
  /\ BboxArea(self) # 0
  /\ 10 * IntersectionArea(self, other) >= OverlapMin * BboxArea(self)

(***************************************************************************)
(* batch_layout_detection, lines 152-153: np.stack and argmax(axis=0).     *)
(***************************************************************************)
Stack(hs) == [i \in 0..(Len(hs) - 1) |-> hs[i + 1]]

RECURSIVE ArgMaxUpTo(_, _)
ArgMaxUpTo(v, n) ==
  IF n = 0 THEN 0
  ELSE LET b == ArgMaxUpTo(v, n - 1) IN IF v[n] > v[b] THEN n ELSE b

ArgMax(v) == ArgMaxUpTo(v, Cardinality(DOMAIN v) - 1)

ArgMaxAxis0(lg) ==
  [y \in DOMAIN lg[0] |-> [x \in DOMAIN lg[0][0] |->
     ArgMax([i \in DOMAIN lg |-> lg[i][y][x]])]]

(***************************************************************************)
(* get_regions_from_detection_result, lines 41-52: the three maskings.     *)
(***************************************************************************)
\* lines 43-44: the separator's box with its right edge padded and clamped
PaddedRight(hs, bbox, width) == Min(Height(hs[1]), bbox[3] + width)

\* line 46: logits[:, y1:y2, x1:x2] = 0
ZeroSlice(lg, x1, y1, x2, y2) ==
  [i \in DOMAIN lg |-> [y \in DOMAIN lg[i] |-> [x \in DOMAIN lg[i][y] |->
     IF y1 <= y /\ y < y2 /\ x1 <= x /\ x < x2 THEN 0 ELSE lg[i][y][x]]]]

RECURSIVE ZeroVerticalLines(_, _, _, _)
ZeroVerticalLines(lg, hs, vbs, width) ==
  IF vbs = <<>> THEN lg
  ELSE LET bbox == Head(vbs)
       IN  ZeroVerticalLines(
             ZeroSlice(lg, bbox[1], bbox[2], PaddedRight(hs, bbox, width), bbox[4]),
             hs, Tail(vbs), width)

\* line 48 with > for >=
ZeroBlanksStrict(lg) ==
  [i \in DOMAIN lg |-> [y \in DOMAIN lg[i] |-> [x \in DOMAIN lg[i][y] |->
     IF lg[0][y][x] > BlankThreshold THEN 0 ELSE lg[i][y][x]]]]

\* line 48: logits[:, logits[0] >= .5] = 0
ZeroBlanks(lg) ==
  [i \in DOMAIN lg |-> [y \in DOMAIN lg[i] |-> [x \in DOMAIN lg[i][y] |->
     IF lg[0][y][x] >= BlankThreshold THEN 0 ELSE lg[i][y][x]]]]

\* line 52 and line 134: heatmap[segment_assignment != i] = 0
MaskSegment(heatmap, seg, i) ==
  [y \in DOMAIN heatmap |-> [x \in DOMAIN heatmap[y] |->
     IF seg[y][x] # i THEN 0 ELSE heatmap[y][x]]]

\* lines 51-52
MaskSegments(lg, seg) == [i \in DOMAIN lg |-> MaskSegment(lg[i], seg, i)]

(***************************************************************************)
(* get_regions_from_detection_result, lines 55-68: the candidates of one   *)
(* class.                                                                  *)
(***************************************************************************)
LayoutBox(id, polygon, label, confidence) ==
  [id |-> id, polygon |-> polygon, label |-> label, confidence |-> confidence]

\* line 58
LargeEnough(p) == PolyArea(p) > AreaMin

\* lines 57-58: the boxes of the detector that go on to be scored
LargeBoxes(dets) == SelectSeq(dets, LargeEnough)

\* lines 59-60: every box clamped to the heatmap
FitAll(bbs, heatmap) ==
  [k \in 1..Len(bbs) |->
     FitToBounds(bbs[k], <<0, 0, Width(heatmap) - 1, Height(heatmap) - 1>>)]

\* line 65: the test that drops a candidate (confidence <= .3)
LowConfidence(c) == c.num <= ConfidenceMin * c.den

\* lines 62-68: the LayoutBoxes one class appends to detected_boxes
RECURSIVE ScoreBoxes(_, _, _, _, _)
ScoreBoxes(bbs, k, ii, idx, label) ==
  IF k > Len(bbs) THEN <<>>
  ELSE LET b == PolyBbox(bbs[k])
           confidence == bbox_avg(ii, b[1], b[2], b[3], b[4])
           rest == ScoreBoxes(bbs, k + 1, ii, idx, label)
       IN  IF LowConfidence(confidence) THEN rest
           ELSE <<LayoutBox(<<"box", idx, k>>, bbs[k], label, confidence)>> \o rest

(***************************************************************************)
(* line 70: sorted(detected_boxes, key=confidence, reverse=True), a stable *)
(* sort: equal confidences keep their order.                               *)
(***************************************************************************)
ConfLess(a, b) == a.num * b.den < b.num * a.den

\* where e goes in the sorted sequence s: behind everything not below it
RECURSIVE InsertSorted(_, _)
InsertSorted(s, e) ==
  IF s = <<>> THEN <<e>>
  ELSE IF ConfLess(Head(s).confidence, e.confidence) THEN <<e>> \o s
  ELSE <<Head(s)>> \o InsertSorted(Tail(s), e)

RECURSIVE SortByConfidence(_)
SortByConfidence(s) ==
  IF s = <<>> THEN <<>>
  ELSE InsertSorted(SortByConfidence(SubSeq(s, 1, Len(s) - 1)), s[Len(s)])

(***************************************************************************)
(* lines 72-78: the lines each box claims.  The state of the two loops is  *)
(* the record [box_lines, used_lines]; box_lines has the claiming boxes'   *)
(* indices as its domain, as the defaultdict has them as keys.             *)
(***************************************************************************)
\* line 76 without the test of used_lines
ClaimsIgnoringUsed(line, box, line_idx, used) ==
  OverlapsHalf(PolyBbox(line), PolyBbox(box.polygon))

\* line 76
Claims(line, box, line_idx, used) ==
  /\ OverlapsHalf(PolyBbox(line), PolyBbox(box.polygon))
  /\ line_idx \notin used

AppendLine(bl, bbox_idx, b) ==
  [k \in DOMAIN bl \cup {bbox_idx} |->
     IF k = bbox_idx
       THEN (IF k \in DOMAIN bl THEN Append(bl[k], b) ELSE <<b>>)
       ELSE bl[k]]

RECURSIVE ClaimLoop(_, _, _, _, _)
ClaimLoop(boxes, lines, bbox_idx, line_idx, st) ==
  IF bbox_idx > Len(boxes) THEN st
  ELSE IF line_idx > Len(lines) THEN ClaimLoop(boxes, lines, bbox_idx + 1, 1, st)
  ELSE IF Claims(lines[line_idx], boxes[bbox_idx], line_idx, st.used_lines)
    THEN ClaimLoop(boxes, lines, bbox_idx, line_idx + 1,
           [box_lines |-> AppendLine(st.box_lines, bbox_idx, PolyBbox(lines[line_idx])),
            used_lines |-> st.used_lines \cup {line_idx}])
  ELSE ClaimLoop(boxes, lines, bbox_idx, line_idx + 1, st)

ClaimAll(boxes, lines) ==
  ClaimLoop(boxes, lines, 1, 1, [box_lines |-> <<>>, used_lines |-> {}])

(***************************************************************************)
(* lines 80-116: which boxes are kept, and what becomes of a kept box.     *)
(***************************************************************************)
\* line 82 with the two tests joined by "or"
SkippedByLabel(bl, bbox_idx, bbox) == bbox.label \notin {"Picture", "Formula"}

\* line 82 without "Formula" in its list
SkippedUnlessPicture(bl, bbox_idx, bbox) ==
  bbox_idx \notin DOMAIN bl /\ bbox.label \notin {"Picture"}

\* line 82: the test that skips a box
Skipped(bl, bbox_idx, bbox) ==
  bbox_idx \notin DOMAIN bl /\ bbox.label \notin {"Picture", "Formula"}

\* lines 85-86
Relabel(bl, bbox_idx, bbox) ==
  IF bbox_idx \in DOMAIN bl /\ bbox.label \in {"Picture"}
    THEN [bbox EXCEPT !.label = "Figure"]
    ELSE bbox

\* line 95 without "Figure" in its list
KeepsOwnExtentNoFigure(label) == label \in {"Table", "Formula"}

\* line 95 with the test of line 89 in its place
KeepsOwnExtentAny(label) == label \notin {"Picture"}

\* line 95: the labels whose box keeps its own extent
KeepsOwnExtent(label) == label \in {"Figure", "Table", "Formula"}

\* lines 88-114
Expand(covered_lines, bbox) ==
  IF Len(covered_lines) > 0 /\ bbox.label \notin {"Picture"}
    THEN LET n == Len(covered_lines)
             lmin_x == SeqMin([k \in 1..n |-> covered_lines[k][1]])
             lmin_y == SeqMin([k \in 1..n |-> covered_lines[k][2]])
             lmax_x == SeqMax([k \in 1..n |-> covered_lines[k][3]])
             lmax_y == SeqMax([k \in 1..n |-> covered_lines[k][4]])
             own == KeepsOwnExtent(bbox.label)
             min_x_box == SeqMin([k \in 1..4 |-> bbox.polygon[k][1]])
             min_y_box == SeqMin([k \in 1..4 |-> bbox.polygon[k][2]])
             max_x_box == SeqMax([k \in 1..4 |-> bbox.polygon[k][1]])
             max_y_box == SeqMax([k \in 1..4 |-> bbox.polygon[k][2]])
             min_x == IF own THEN Min(lmin_x, min_x_box) ELSE lmin_x
             min_y == IF own THEN Min(lmin_y, min_y_box) ELSE lmin_y
             max_x == IF own THEN Max(lmax_x, max_x_box) ELSE lmax_x
             max_y == IF own THEN Max(lmax_y, max_y_box) ELSE lmax_y
         IN  [bbox EXCEPT !.polygon = Rect(min_x, min_y, max_x, max_y)]
    ELSE bbox

\* box_lines[bbox_idx] at line 88: a missing key reads as the empty list
CoveredLines(bl, bbox_idx) == IF bbox_idx \in DOMAIN bl THEN bl[bbox_idx] ELSE <<>>

\* the box of index bbox_idx as lines 85-114 leave it
Processed(bl, bbox_idx, bbox) ==
  Expand(CoveredLines(bl, bbox_idx), Relabel(bl, bbox_idx, bbox))

RECURSIVE KeptBoxes(_, _, _)
KeptBoxes(boxes, bl, bbox_idx) ==
  IF bbox_idx > Len(boxes) THEN <<>>
  ELSE IF Skipped(bl, bbox_idx, boxes[bbox_idx]) THEN KeptBoxes(boxes, bl, bbox_idx + 1)
  ELSE <<Processed(bl, bbox_idx, boxes[bbox_idx])>> \o KeptBoxes(boxes, bl, bbox_idx + 1)

\* detected_boxes after the loop: the kept boxes were changed in place
BoxesAfterLoop(boxes, bl) ==
  [k \in 1..Len(boxes) |->
     IF Skipped(bl, k, boxes[k]) THEN boxes[k] ELSE Processed(bl, k, boxes[k])]

\* box_lines after the loop: line 88 adds the key of every kept box
BoxLinesAfterLoop(boxes, bl) ==
  [k \in DOMAIN bl \cup {j \in 1..Len(boxes) : ~Skipped(bl, j, boxes[j])} |->
     CoveredLines(bl, k)]

\* lines 118-120
RECURSIVE UnusedLineBoxes(_, _, _)
UnusedLineBoxes(lines, used, line_idx) ==
  IF line_idx > Len(lines) THEN <<>>
  ELSE IF line_idx \in used THEN UnusedLineBoxes(lines, used, line_idx + 1)
  ELSE <<LayoutBox(<<"line", line_idx>>, lines[line_idx], "Text",
                   [num |-> UnusedLineConfidence, den |-> 1])>>
       \o UnusedLineBoxes(lines, used, line_idx + 1)

\* line 123: bbox.rescale(reversed(heatmap.shape), orig_size)
RescaleBox(bbox, heatmap, size) ==
  [bbox EXCEPT !.polygon =
     RescalePoly(bbox.polygon, <<Width(heatmap), Height(heatmap)>>, size)]

\* line 125 with 0 for 16
BigEnoughNonEmpty(bbox) == PolyArea(bbox.polygon) > 0

\* line 125
BigEnough(bbox) == PolyArea(bbox.polygon) > OutAreaMin

(***************************************************************************)
(* get_regions, lines 129-141, and keep_largest_boxes.                     *)
(***************************************************************************)
\* keep_largest_boxes: a box goes when a larger box covers over .9 of it
Contained(boxes, k) ==
  \E j \in 1..Len(boxes) :
     /\ boxes[j].polygon # boxes[k].polygon
     /\ PolyBbox(boxes[j].polygon) # PolyBbox(boxes[k].polygon)
     /\ PolyArea(boxes[k].polygon) # 0
     /\ 10 * IntersectionArea(PolyBbox(boxes[k].polygon), PolyBbox(boxes[j].polygon))
          > 9 * PolyArea(boxes[k].polygon)
     /\ PolyArea(boxes[k].polygon) < PolyArea(boxes[j].polygon)

RECURSIVE KeepLargestFrom(_, _)
KeepLargestFrom(boxes, k) ==
  IF k > Len(boxes) THEN <<>>
  ELSE IF Contained(boxes, k) THEN KeepLargestFrom(boxes, k + 1)
  ELSE <<boxes[k]>> \o KeepLargestFrom(boxes, k + 1)

keep_largest_boxes(boxes) == KeepLargestFrom(boxes, 1)

\* lines 132-134 and 138: the caller's list after class i
MaskedAndAppended(hs, seg, i) ==
  LET heatmap == MaskSegment(hs[i + 1], seg, i)
  IN  Append([hs EXCEPT ![i + 1] = heatmap], heatmap)

(***************************************************************************)
(* Inputs.  The boxes the external detectors return and the lines of the   *)
(* text detection are drawn from small pools.                              *)
(***************************************************************************)
RECURSIVE SubSeqs(_, _)
SubSeqs(pool, k) ==
  IF pool = <<>> \/ k = 0 THEN {<<>>}
  ELSE SubSeqs(Tail(pool), k)
         \cup {<<Head(pool)>> \o s : s \in SubSeqs(Tail(pool), k - 1)}

\* boxes get_detected_boxes may return for a heatmap, in heatmap space: the
\* last one reaches past the heatmap's last column
DetPool(heatmap) ==
  LET h == Height(heatmap)
      w == Width(heatmap)
  IN  IF h * w <= AreaMin
        THEN <<Rect(0, 0, w - 1, h - 1)>>
        ELSE <<Rect(0, 0, w - 1, h - 2), Rect(0, 1, w - 1, h - 1),
               Rect(0, 0, w - 1, h - 1), Rect(2, 0, w - 1, h - 1),
               Rect(0, 0, w + 1, h - 3)>>

Detections(heatmap) == SubSeqs(DetPool(heatmap), MaxDet)

\* boxes get_and_clean_boxes may return, in the image's space
CleanBoxes(heatmap, size) ==
  LET pool == DetPool(heatmap)
  IN  SubSeqs([k \in 1..Len(pool) |->
                 RescalePoly(pool[k], <<Width(heatmap), Height(heatmap)>>, size)],
              MaxDet)

\* a page of 6 rows and 8 columns: class 1 fills the upper half with v1,
\* class 2 the lower half with v2, blank is low everywhere
PageStack(v1, v2) ==
  <<[y \in 0..5 |-> [x \in 0..7 |-> 1]],
    [y \in 0..5 |-> [x \in 0..7 |-> IF y < 3 THEN v1 ELSE 0]],
    [y \in 0..5 |-> [x \in 0..7 |-> IF y >= 3 THEN v2 ELSE 0]]>>

PageLevels == {<<10, 9>>, <<9, 10>>, <<10, 10>>, <<3, 10>>}

PageLabels ==
  {[i \in 0..2 |-> <<"Blank", "Text", "Picture">>[i + 1]],
   [i \in 0..2 |-> <<"Blank", "Formula", "Table">>[i + 1]]}

\* image sizes <<width, height>>: the heatmap's size, twice and half of it,
\* so that every scale factor is exact in floating point
PageSizes == {<<8, 6>>, <<16, 12>>, <<4, 3>>}

\* three text lines in the image's space: the upper, middle and lower third
PageLines(size) ==
  LET w == size[1]
      h == size[2]
  IN  <<Rect(w \div 4, 0, (3 * w) \div 4, h \div 3),
        Rect(w \div 4, h \div 3, (3 * w) \div 4, (2 * h) \div 3),
        Rect(w \div 4, (2 * h) \div 3, (3 * w) \div 4, h)>>

\* one column separator down the middle of the image
PageSeparators(size) == {<<>>, <<<<size[1] \div 2, 0, size[1] \div 2, size[2]>>>>}

PageDetectionResults(size) ==
  {None} \cup
  {[bboxes |-> ls, vertical_lines |-> vs] :
     ls \in SubSeqs(PageLines(size), MaxLines), vs \in PageSeparators(size)}

\* heatmaps of two pixels and two classes, every value of PixelLevels
PixelLevels == {0, 4, 5, 6}

PixelShapes == {<<1, 2>>, <<2, 1>>}

PixelStacks(shape) ==
  [1..2 -> [0..(shape[1] - 1) -> [0..(shape[2] - 1) -> PixelLevels]]]

PixelLabels == [i \in 0..1 |-> <<"Blank", "Text">>[i + 1]]

PixelSeparators(shape) ==
  {<<>>} \cup
  {<<<<x1, 0, x2, shape[1]>>>> : x1 \in 0..(shape[2] - 1), x2 \in 0..(shape[2] - 1)}

PixelDetectionResults(shape) ==
  {None} \cup
  {[bboxes |-> ls, vertical_lines |-> vs] :
     ls \in SubSeqs(<<Rect(0, 0, shape[2], shape[1])>>, MaxLines),
     vs \in {v \in PixelSeparators(shape) : v = <<>> \/ v[1][1] <= v[1][3]}}

PixelWidths == {1, DefaultVerticalLineWidth}

(***************************************************************************)
(* The state after batch_detection returned, for one image.                *)
(***************************************************************************)
Start(stack, labels, size, dr, width) ==
  /\ pc = "batch"
  /\ preds = stack
  /\ heatmaps = stack
  /\ id2label = labels
  /\ orig_size = size
  /\ detection_result = dr
  /\ vertical_line_width = width
  /\ segment_assignment = <<>>
  /\ logits = <<>>
  /\ vertical_line_bboxes = <<>>
  /\ line_bboxes = <<>>
  /\ heatmap_idx = 0
  /\ bboxes = <<>>
  /\ integral_image = <<>>
  /\ detected_boxes = <<>>
  /\ box_lines = <<>>
  /\ used_lines = {}
  /\ new_boxes = <<>>
  /\ layout_bboxes = <<>>
  /\ result = None
  /\ arr = <<>>
  /\ avg_box = <<>>
  /\ avg_result = None

Init ==
  \E lv \in PageLevels, labels \in PageLabels, size \in PageSizes :
    \E dr \in PageDetectionResults(size) :
      Start(PageStack(lv[1], lv[2]), labels, size, dr, DefaultVerticalLineWidth)

InitPixels ==
  \E shape \in PixelShapes :
    \E stack \in PixelStacks(shape), dr \in PixelDetectionResults(shape),
       width \in PixelWidths :
      Start(stack, PixelLabels, <<shape[2], shape[1]>>, dr, width)

NumLabels == Cardinality(DOMAIN id2label)

HeatmapSize == <<Width(heatmaps[1]), Height(heatmaps[1])>>

(***************************************************************************)
(* batch_layout_detection, lines 150-158.                                  *)
(***************************************************************************)
SegmentAssignment ==
  /\ pc = "batch"
  /\ segment_assignment' = ArgMaxAxis0(Stack(heatmaps))
  /\ pc' = IF detection_result # None THEN "rescale_lines" ELSE "get_regions"
  /\ heatmap_idx' = 1
  /\ UNCHANGED <<preds, heatmaps, orig_size, id2label, detection_result,
                 vertical_line_width, logits, vertical_line_bboxes, line_bboxes,
                 bboxes, integral_image, detected_boxes, box_lines, used_lines,
                 new_boxes, layout_bboxes, result, arr, avg_box, avg_result>>

(***************************************************************************)
(* get_regions_from_detection_result.                                      *)
(***************************************************************************)
\* lines 30-39: the lines and separators are rescaled in place
RescaleLines ==
  /\ pc = "rescale_lines"
  /\ logits' = Stack(heatmaps)
  /\ vertical_line_bboxes' =
       [k \in 1..Len(detection_result.vertical_lines) |->
          RescaleBbox(detection_result.vertical_lines[k], orig_size, HeatmapSize)]
  /\ line_bboxes' =
       [k \in 1..Len(detection_result.bboxes) |->
          RescalePoly(detection_result.bboxes[k], orig_size, HeatmapSize)]
  /\ detection_result' =
       [bboxes |-> line_bboxes', vertical_lines |-> vertical_line_bboxes']
  /\ pc' = "vertical_lines"
  /\ UNCHANGED <<preds, heatmaps, orig_size, id2label, vertical_line_width,
                 segment_assignment, heatmap_idx, bboxes, integral_image,
                 detected_boxes, box_lines, used_lines, new_boxes, layout_bboxes,
                 result, arr, avg_box, avg_result>>

\* lines 41-46
ZeroColumnLines ==
  /\ pc = "vertical_lines"
  /\ logits' = ZeroVerticalLines(logits, heatmaps, vertical_line_bboxes,
                                 vertical_line_width)
  /\ pc' = "blanks"
  /\ UNCHANGED <<preds, heatmaps, orig_size, id2label, detection_result,
                 vertical_line_width, segment_assignment, vertical_line_bboxes,
                 line_bboxes, heatmap_idx, bboxes, integral_image, detected_boxes,
                 box_lines, used_lines, new_boxes, layout_bboxes, result, arr,
                 avg_box, avg_result>>

\* line 48
ZeroBlankPixels ==
  /\ pc = "blanks"
  /\ logits' = ZeroBlanks(logits)
  /\ pc' = "segments"
  /\ UNCHANGED <<preds, heatmaps, orig_size, id2label, detection_result,
                 vertical_line_width, segment_assignment, vertical_line_bboxes,
                 line_bboxes, heatmap_idx, bboxes, integral_image, detected_boxes,
                 box_lines, used_lines, new_boxes, layout_bboxes, result, arr,
                 avg_box, avg_result>>

\* lines 50-52
ZeroOtherSegments ==
  /\ pc = "segments"
  /\ logits' = MaskSegments(logits, segment_assignment)
  /\ pc' = "detect"
  /\ UNCHANGED <<preds, heatmaps, orig_size, id2label, detection_result,
                 vertical_line_width, segment_assignment, vertical_line_bboxes,
                 line_bboxes, heatmap_idx, bboxes, integral_image, detected_boxes,
                 box_lines, used_lines, new_boxes, layout_bboxes, result, arr,
                 avg_box, avg_result>>

\* lines 55-58, one turn of the loop over the classes: the detector's boxes
DetectBoxes ==
  /\ pc = "detect"
  /\ heatmap_idx < NumLabels
  /\ \E dets \in Detections(logits[heatmap_idx]) : bboxes' = LargeBoxes(dets)
  /\ pc' = "score"
  /\ UNCHANGED <<preds, heatmaps, orig_size, id2label, detection_result,
                 vertical_line_width, segment_assignment, logits,
                 vertical_line_bboxes, line_bboxes, heatmap_idx, integral_image,
                 detected_boxes, box_lines, used_lines, new_boxes, layout_bboxes,
                 result, arr, avg_box, avg_result>>

\* lines 59-68, the rest of the turn: the boxes are clamped and scored
ScoreClass ==
  /\ pc = "score"
  /\ bboxes' = FitAll(bboxes, logits[heatmap_idx])
  /\ integral_image' = compute_integral_image(logits[heatmap_idx])
  /\ detected_boxes' =
       detected_boxes \o ScoreBoxes(bboxes', 1, integral_image', heatmap_idx,
                                    id2label[heatmap_idx])
  /\ heatmap_idx' = heatmap_idx + 1
  /\ pc' = IF heatmap_idx' < NumLabels THEN "detect" ELSE "sort"
  /\ UNCHANGED <<preds, heatmaps, orig_size, id2label, detection_result,
                 vertical_line_width, segment_assignment, logits,
                 vertical_line_bboxes, line_bboxes, box_lines, used_lines,
                 new_boxes, layout_bboxes, result, arr, avg_box, avg_result>>

\* line 70
SortBoxes ==
  /\ pc = "sort"
  /\ detected_boxes' = SortByConfidence(detected_boxes)
  /\ pc' = "claim"
  /\ UNCHANGED <<preds, heatmaps, orig_size, id2label, detection_result,
                 vertical_line_width, segment_assignment, logits,
                 vertical_line_bboxes, line_bboxes, heatmap_idx, bboxes,
                 integral_image, box_lines, used_lines, new_boxes, layout_bboxes,
                 result, arr, avg_box, avg_result>>

\* lines 72-78
ClaimLines ==
  /\ pc = "claim"
  /\ LET st == ClaimAll(detected_boxes, line_bboxes)
     IN  /\ box_lines' = st.box_lines
         /\ used_lines' = st.used_lines
  /\ pc' = "new_boxes"
  /\ UNCHANGED <<preds, heatmaps, orig_size, id2label, detection_result,
                 vertical_line_width, segment_assignment, logits,
                 vertical_line_bboxes, line_bboxes, heatmap_idx, bboxes,
                 integral_image, detected_boxes, new_boxes, layout_bboxes, result,
                 arr, avg_box, avg_result>>

\* lines 80-116
KeepAndExpand ==
  /\ pc = "new_boxes"
  /\ new_boxes' = KeptBoxes(detected_boxes, box_lines, 1)
  /\ detected_boxes' = BoxesAfterLoop(detected_boxes, box_lines)
  /\ box_lines' = BoxLinesAfterLoop(detected_boxes, box_lines)
  /\ pc' = "unused_lines"
  /\ UNCHANGED <<preds, heatmaps, orig_size, id2label, detection_result,
                 vertical_line_width, segment_assignment, logits,
                 vertical_line_bboxes, line_bboxes, heatmap_idx, bboxes,
                 integral_image, used_lines, layout_bboxes, result, arr, avg_box,
                 avg_result>>

\* lines 118-120
AddUnusedLines ==
  /\ pc = "unused_lines"
  /\ new_boxes' = new_boxes \o UnusedLineBoxes(line_bboxes, used_lines, 1)
  /\ pc' = "rescale"
  /\ UNCHANGED <<preds, heatmaps, orig_size, id2label, detection_result,
                 vertical_line_width, segment_assignment, logits,
                 vertical_line_bboxes, line_bboxes, heatmap_idx, bboxes,
                 integral_image, detected_boxes, box_lines, used_lines,
                 layout_bboxes, result, arr, avg_box, avg_result>>

\* lines 122-123: the boxes of new_boxes are rescaled in place
RescaleBoxes ==
  /\ pc = "rescale"
  /\ new_boxes' = [k \in 1..Len(new_boxes) |->
                     RescaleBox(new_boxes[k], logits[NumLabels - 1], orig_size)]
  /\ detected_boxes' =
       [k \in 1..Len(detected_boxes) |->
          IF \E j \in 1..Len(new_boxes) : new_boxes[j].id = detected_boxes[k].id
            THEN RescaleBox(detected_boxes[k], logits[NumLabels - 1], orig_size)
            ELSE detected_boxes[k]]
  /\ pc' = "area"
  /\ UNCHANGED <<preds, heatmaps, orig_size, id2label, detection_result,
                 vertical_line_width, segment_assignment, logits,
                 vertical_line_bboxes, line_bboxes, heatmap_idx, bboxes,
                 integral_image, box_lines, used_lines, layout_bboxes, result, arr,
                 avg_box, avg_result>>

\* lines 125-126 and line 156: the list the function returns
DropSmallBoxes ==
  /\ pc = "area"
  /\ layout_bboxes' = SelectSeq(new_boxes, BigEnough)
  /\ pc' = "assemble"
  /\ UNCHANGED <<preds, heatmaps, orig_size, id2label, detection_result,
                 vertical_line_width, segment_assignment, logits,
                 vertical_line_bboxes, line_bboxes, heatmap_idx, bboxes,
                 integral_image, detected_boxes, box_lines, used_lines, new_boxes,
                 result, arr, avg_box, avg_result>>

(***************************************************************************)
(* get_regions: one turn of the loop of lines 131-138, then lines 140-141. *)
(***************************************************************************)
RegionsOfClass ==
  /\ pc = "get_regions"
  /\ heatmap_idx < NumLabels
  /\ heatmaps' = MaskedAndAppended(heatmaps, segment_assignment, heatmap_idx)
  /\ \E bbox \in CleanBoxes(heatmaps[heatmap_idx + 1], orig_size) :
       layout_bboxes' =
         layout_bboxes \o
           [k \in 1..Len(bbox) |->
              LayoutBox(<<"region", heatmap_idx, k>>, bbox[k],
                        id2label[heatmap_idx], None)]
  /\ heatmap_idx' = heatmap_idx + 1
  /\ pc' = IF heatmap_idx' < NumLabels THEN "get_regions" ELSE "keep_largest"
  /\ UNCHANGED <<preds, orig_size, id2label, detection_result,
                 vertical_line_width, segment_assignment, logits,
                 vertical_line_bboxes, line_bboxes, bboxes, integral_image,
                 detected_boxes, box_lines, used_lines, new_boxes, result, arr,
                 avg_box, avg_result>>

KeepLargest ==
  /\ pc = "keep_largest"
  /\ layout_bboxes' = keep_largest_boxes(layout_bboxes)
  /\ pc' = "assemble"
  /\ UNCHANGED <<preds, heatmaps, orig_size, id2label, detection_result,
                 vertical_line_width, segment_assignment, logits,
                 vertical_line_bboxes, line_bboxes, heatmap_idx, bboxes,
                 integral_image, detected_boxes, box_lines, used_lines, new_boxes,
                 result, arr, avg_box, avg_result>>

(***************************************************************************)
(* batch_layout_detection, lines 160-169.                                  *)
(***************************************************************************)
LayoutResult(bbs, seg, hs, size) ==
  [bboxes |-> bbs,
   segmentation_map |-> [y \in DOMAIN seg |-> [x \in DOMAIN seg[y] |-> seg[y][x] % 256]],
   heatmaps |-> hs,
   image_bbox |-> <<0, 0, size[1], size[2]>>]

AssembleResult ==
  /\ pc = "assemble"
  /\ result' = LayoutResult(layout_bboxes, segment_assignment, heatmaps, orig_size)
  /\ pc' = "done"
  /\ UNCHANGED <<preds, heatmaps, orig_size, id2label, detection_result,
                 vertical_line_width, segment_assignment, logits,
                 vertical_line_bboxes, line_bboxes, heatmap_idx, bboxes,
                 integral_image, detected_boxes, box_lines, used_lines, new_boxes,
                 layout_bboxes, arr, avg_box, avg_result>>

Next ==
  \/ SegmentAssignment
  \/ RescaleLines
  \/ ZeroColumnLines
  \/ ZeroBlankPixels
  \/ ZeroOtherSegments
  \/ DetectBoxes
  \/ ScoreClass
  \/ SortBoxes
  \/ ClaimLines
  \/ KeepAndExpand
  \/ AddUnusedLines
  \/ RescaleBoxes
  \/ DropSmallBoxes
  \/ RegionsOfClass
  \/ KeepLargest
  \/ AssembleResult

Spec == Init /\ [][Next]_vars

SpecPixels == InitPixels /\ [][Next]_vars

(***************************************************************************)
(* compute_integral_image and bbox_avg on their own: an array, its         *)
(* integral image, and one query with coordinates inside the array.        *)
(***************************************************************************)
AvgLevels == {0, 1, 2}

AvgArrays == [0..1 -> [0..1 -> AvgLevels]]

InitAvg ==
  /\ pc = "avg_array"
  /\ arr \in AvgArrays
  /\ avg_box = <<>>
  /\ avg_result = None
  /\ integral_image = <<>>
  /\ preds = <<>>
  /\ heatmaps = <<>>
  /\ id2label = <<>>
  /\ orig_size = <<>>
  /\ detection_result = None
  /\ vertical_line_width = DefaultVerticalLineWidth
  /\ segment_assignment = <<>>
  /\ logits = <<>>
  /\ vertical_line_bboxes = <<>>
  /\ line_bboxes = <<>>
  /\ heatmap_idx = 0
  /\ bboxes = <<>>
  /\ detected_boxes = <<>>
  /\ box_lines = <<>>
  /\ used_lines = {}
  /\ new_boxes = <<>>
  /\ layout_bboxes = <<>>
  /\ result = None

IntegralOfArray ==
  /\ pc = "avg_array"
  /\ integral_image' = compute_integral_image(arr)
  /\ pc' = "avg_query"
  /\ UNCHANGED <<preds, heatmaps, orig_size, id2label, detection_result,
                 vertical_line_width, segment_assignment, logits,
                 vertical_line_bboxes, line_bboxes, heatmap_idx, bboxes,
                 detected_boxes, box_lines, used_lines, new_boxes, layout_bboxes,
                 result, arr, avg_box, avg_result>>

AverageOfBox ==
  /\ pc = "avg_query"
  /\ \E x1 \in DOMAIN arr[0], x2 \in DOMAIN arr[0], y1 \in DOMAIN arr, y2 \in DOMAIN arr :
       /\ x1 <= x2
       /\ y1 <= y2
       /\ avg_box' = <<x1, y1, x2, y2>>
       /\ avg_result' = bbox_avg(integral_image, x1, y1, x2, y2)
  /\ pc' = "avg_done"
  /\ UNCHANGED <<preds, heatmaps, orig_size, id2label, detection_result,
                 vertical_line_width, segment_assignment, logits,
                 vertical_line_bboxes, line_bboxes, heatmap_idx, bboxes,
                 integral_image, detected_boxes, box_lines, used_lines, new_boxes,
                 layout_bboxes, result, arr>>

NextAvg == IntegralOfArray \/ AverageOfBox

SpecAvg == InitAvg /\ [][NextAvg]_vars

(***************************************************************************)
(* Properties.                                                             *)
(***************************************************************************)
LinesMode == detection_result # None

MinOf(S) == CHOOSE m \in S : \A n \in S : m <= n
MaxOf(S) == CHOOSE m \in S : \A n \in S : m >= n

\* the places <<box index, position>> of box_lines that hold line l
ClaimEntries(l) ==
  UNION {{<<b, k>> : k \in {j \in 1..Len(box_lines[b]) :
                              box_lines[b][j] = PolyBbox(line_bboxes[l])}} :
         b \in DOMAIN box_lines}

ClaimedBy(l) == {b \in DOMAIN box_lines : \E e \in ClaimEntries(l) : e[1] = b}

\* the boxes that line l overlaps by .5 or more of its area
Overlapping(l) ==
  {b \in 1..Len(detected_boxes) :
     OverlapsHalf(PolyBbox(line_bboxes[l]), PolyBbox(detected_boxes[b].polygon))}

\* the label a candidate was given at line 67
OriginalLabel(bbox) == id2label[bbox.id[2]]

Places(list, bbox) == {j \in 1..Len(list) : list[j].id = bbox.id}

\* C1: when the lines have been claimed, the boxes are in descending order of
\* confidence, no line is claimed more than once, a line that overlaps some
\* box by .5 or more is claimed by the first such box and by no other, and
\* no box of lower confidence than a box the line overlaps claims it.
LineClaimingExclusive ==
  pc = "new_boxes" =>
    /\ \A i, j \in 1..Len(detected_boxes) :
         i < j => ~ConfLess(detected_boxes[i].confidence, detected_boxes[j].confidence)
    /\ \A l \in 1..Len(line_bboxes) :
         /\ Cardinality(ClaimEntries(l)) <= 1
         /\ Overlapping(l) # {} => ClaimedBy(l) = {MinOf(Overlapping(l))}
         /\ \A b \in ClaimedBy(l), o \in Overlapping(l) :
              ~ConfLess(detected_boxes[b].confidence, detected_boxes[o].confidence)

\* a line that overlaps two boxes and went to the one of a later class,
\* which the sort put first
LineClaimedByBetterBox ==
  /\ pc = "new_boxes"
  /\ \E l \in 1..Len(line_bboxes) : \E a, b \in Overlapping(l) :
       /\ ConfLess(detected_boxes[b].confidence, detected_boxes[a].confidence)
       /\ detected_boxes[a].id[2] > detected_boxes[b].id[2]
       /\ ClaimedBy(l) = {a}

\* C2 as stated: at the end, a candidate that claimed no line is in the
\* returned list with its label if it is a Picture or a Formula, and is not
\* in the returned list otherwise.
LinelessRetainedInResult ==
  (pc = "done" /\ LinesMode) =>
    \A k \in 1..Len(detected_boxes) :
      CoveredLines(box_lines, k) = <<>> =>
        IF OriginalLabel(detected_boxes[k]) \in {"Picture", "Formula"}
          THEN \E j \in Places(result.bboxes, detected_boxes[k]) :
                 result.bboxes[j].label = OriginalLabel(detected_boxes[k])
          ELSE Places(result.bboxes, detected_boxes[k]) = {}

\* C2 amended: a candidate that claimed no line is kept in new_boxes with its
\* label if it is a Picture or a Formula, and is then in the returned list
\* exactly when its rescaled area is over 16; with any other label it is in
\* neither list.
LinelessRetainedBeforeAreaFilter ==
  (pc = "done" /\ LinesMode) =>
    \A k \in 1..Len(detected_boxes) :
      CoveredLines(box_lines, k) = <<>> =>
        IF OriginalLabel(detected_boxes[k]) \in {"Picture", "Formula"}
          THEN /\ Cardinality(Places(new_boxes, detected_boxes[k])) = 1
               /\ \A j \in Places(new_boxes, detected_boxes[k]) :
                    /\ new_boxes[j].label = OriginalLabel(detected_boxes[k])
                    /\ (PolyArea(new_boxes[j].polygon) > OutAreaMin
                          <=> \E r \in Places(result.bboxes, detected_boxes[k]) :
                                result.bboxes[r] = new_boxes[j])
          ELSE /\ Places(new_boxes, detected_boxes[k]) = {}
               /\ Places(result.bboxes, detected_boxes[k]) = {}

\* a Picture without lines that is returned, and another candidate without
\* lines that is not
LinelessPictureReturned ==
  /\ pc = "done"
  /\ LinesMode
  /\ \E k, n \in 1..Len(detected_boxes) :
       /\ CoveredLines(box_lines, k) = <<>>
       /\ OriginalLabel(detected_boxes[k]) = "Picture"
       /\ Places(result.bboxes, detected_boxes[k]) # {}
       /\ CoveredLines(box_lines, n) = <<>>
       /\ OriginalLabel(detected_boxes[n]) = "Text"

\* the cells of the closed rectangle, as <<x, y>>
Cells(box) == {<<x, y>> : x \in box[1]..box[3], y \in box[2]..box[4]}

RECURSIVE SumCells(_, _)
SumCells(a, S) ==
  IF S = {} THEN 0
  ELSE LET c == CHOOSE c \in S : TRUE IN a[c[2]][c[1]] + SumCells(a, S \ {c})

\* C3 as stated: bbox_avg of the integral image is the mean of the array
\* over the closed rectangle, the sum of its cells over their number, and is
\* 0 for a box of zero area.
AverageIsMean ==
  pc = "avg_done" =>
    IF bbox_area(avg_box[1], avg_box[2], avg_box[3], avg_box[4]) = 0
      THEN avg_result.num = 0
      ELSE avg_result.num * Cardinality(Cells(avg_box))
             = SumCells(arr, Cells(avg_box)) * avg_result.den

\* C4 as stated: no returned box has area 16 or less, and no box has area
\* 25 or less when it is scored, after it was clamped.
AreaFiltersAfterClamp ==
  /\ (pc = "done" /\ LinesMode) =>
       \A j \in 1..Len(result.bboxes) : PolyArea(result.bboxes[j].polygon) > OutAreaMin
  /\ pc \in {"detect", "sort"} =>
       \A k \in 1..Len(bboxes) : PolyArea(bboxes[k]) > AreaMin

\* C4 amended: no returned box has area 16 or less, and every box that goes
\* on to be scored had area over 25 as get_detected_boxes returned it,
\* before it was clamped.
AreaFiltersBeforeClamp ==
  /\ (pc = "done" /\ LinesMode) =>
       \A j \in 1..Len(result.bboxes) : PolyArea(result.bboxes[j].polygon) > OutAreaMin
  /\ pc = "score" =>
       \A k \in 1..Len(bboxes) : PolyArea(bboxes[k]) > AreaMin

\* boxes were scored and a box of a line and a box of a candidate returned
BoxesReturned ==
  /\ pc = "done"
  /\ LinesMode
  /\ Len(bboxes) > 0
  /\ \E i, j \in 1..Len(result.bboxes) :
       result.bboxes[i].id[1] = "line" /\ result.bboxes[j].id[1] = "box"

\* the rectangle around a polygon and a set of bboxes
UnionRect(p, bbs) ==
  Rect(MinOf({p[k][1] : k \in 1..4} \cup {b[1] : b \in bbs}),
       MinOf({p[k][2] : k \in 1..4} \cup {b[2] : b \in bbs}),
       MaxOf({p[k][1] : k \in 1..4} \cup {b[3] : b \in bbs}),
       MaxOf({p[k][2] : k \in 1..4} \cup {b[4] : b \in bbs}))

ExpandStep == pc = "new_boxes" /\ pc' = "unused_lines"

\* C5 as stated: a Picture that a line overlaps by .5 or more is kept with
\* the label Figure and, as its polygon, the rectangle around its own extent
\* and the lines that overlap it.
OverlappedPictureBecomesFigure ==
  [][ExpandStep =>
       \A k \in 1..Len(detected_boxes) :
         LET over == {l \in 1..Len(line_bboxes) : k \in Overlapping(l)}
         IN  (detected_boxes[k].label = "Picture" /\ over # {}) =>
               \E j \in 1..Len(new_boxes') :
                 /\ new_boxes'[j].id = detected_boxes[k].id
                 /\ new_boxes'[j].label = "Figure"
                 /\ new_boxes'[j].polygon =
                      UnionRect(detected_boxes[k].polygon,
                                {PolyBbox(line_bboxes[l]) : l \in over})]_vars

\* C5 amended: a Picture that claims a line is kept with the label Figure
\* and, as its polygon, the rectangle around its own extent and the lines it
\* claimed; a Picture that claims no line is kept as it is.
ClaimingPictureBecomesFigure ==
  [][ExpandStep =>
       \A k \in 1..Len(detected_boxes) :
         detected_boxes[k].label = "Picture" =>
           \E j \in 1..Len(new_boxes') :
             IF k \in DOMAIN box_lines
               THEN /\ new_boxes'[j].id = detected_boxes[k].id
                    /\ new_boxes'[j].label = "Figure"
                    /\ new_boxes'[j].polygon =
                         UnionRect(detected_boxes[k].polygon,
                                   {box_lines[k][n] : n \in 1..Len(box_lines[k])})
               ELSE new_boxes'[j] = detected_boxes[k]]_vars

\* a Picture that claimed a line reaching out of it and is now a Figure
PictureIsFigure ==
  /\ pc = "unused_lines"
  /\ \E j \in 1..Len(new_boxes), k \in DOMAIN box_lines :
       /\ new_boxes[j].id = detected_boxes[k].id
       /\ OriginalLabel(new_boxes[j]) = "Picture"
       /\ new_boxes[j].label = "Figure"
       /\ \E n \in 1..Len(box_lines[k]) :
            PolyBbox(new_boxes[j].polygon)[2] = box_lines[k][n][2]

Inside(inner, outer) ==
  /\ outer[1] <= inner[1]
  /\ outer[2] <= inner[2]
  /\ inner[3] <= outer[3]
  /\ inner[4] <= outer[4]

\* C6 as stated: with one line, inside the one candidate, whose label is not
\* Picture, the box kept has the line's rectangle as its polygon.
SingleLinePolygon ==
  [][(/\ ExpandStep
      /\ Len(line_bboxes) = 1
      /\ Len(detected_boxes) = 1
      /\ Inside(PolyBbox(line_bboxes[1]), PolyBbox(detected_boxes[1].polygon))
      /\ detected_boxes[1].label # "Picture") =>
       \E j \in 1..Len(new_boxes') :
         /\ new_boxes'[j].id = detected_boxes[1].id
         /\ new_boxes'[j].polygon = Rect(PolyBbox(line_bboxes[1])[1],
                                         PolyBbox(line_bboxes[1])[2],
                                         PolyBbox(line_bboxes[1])[3],
                                         PolyBbox(line_bboxes[1])[4])]_vars

\* C6 amended: with one line, of non-zero area and inside the one candidate,
\* the candidate claims the line; the box kept has the line's rectangle as
\* its polygon when its label is none of Picture, Figure, Table and Formula,
\* and its own rectangle when its label is Figure, Table or Formula.
SingleLinePolygonOfTextBox ==
  [][(/\ ExpandStep
      /\ Len(line_bboxes) = 1
      /\ Len(detected_boxes) = 1
      /\ PolyArea(line_bboxes[1]) # 0
      /\ Inside(PolyBbox(line_bboxes[1]), PolyBbox(detected_boxes[1].polygon))
      /\ detected_boxes[1].label # "Picture") =>
       /\ 1 \in DOMAIN box_lines
       /\ \E j \in 1..Len(new_boxes') :
            /\ new_boxes'[j].id = detected_boxes[1].id
            /\ new_boxes'[j].polygon =
                 IF detected_boxes[1].label \in {"Figure", "Table", "Formula"}
                   THEN Rect(PolyBbox(detected_boxes[1].polygon)[1],
                             PolyBbox(detected_boxes[1].polygon)[2],
                             PolyBbox(detected_boxes[1].polygon)[3],
                             PolyBbox(detected_boxes[1].polygon)[4])
                   ELSE Rect(PolyBbox(line_bboxes[1])[1],
                             PolyBbox(line_bboxes[1])[2],
                             PolyBbox(line_bboxes[1])[3],
                             PolyBbox(line_bboxes[1])[4])]_vars

\* one line inside the one Text candidate, which was scored over a larger
\* area and now has the line's rectangle
TextBoxShrunkToLine ==
  /\ pc = "unused_lines"
  /\ Len(line_bboxes) = 1
  /\ Len(detected_boxes) = 1
  /\ Len(new_boxes) = 1
  /\ new_boxes[1].label = "Text"
  /\ 1 \in DOMAIN box_lines
  /\ PolyBbox(new_boxes[1].polygon) = PolyBbox(line_bboxes[1])
  /\ new_boxes[1].confidence.den > PolyArea(new_boxes[1].polygon)

\* s is the first index at which v is largest
IsFirstMax(v, s) ==
  /\ \A j \in DOMAIN v : v[j] <= v[s]
  /\ \A j \in DOMAIN v : j < s => v[j] < v[s]

Masked == LinesMode /\ pc \notin {"batch", "rescale_lines", "vertical_lines", "blanks", "segments"}

\* C7: once the blanks and the other segments are zeroed, segment_assignment
\* is at every pixel the lowest class index of the largest raw value, a
\* class is non-zero only at pixels assigned to it, and every class is zero
\* where the raw blank heatmap is .5 or more.
MutuallyExclusive ==
  Masked =>
    \A y \in DOMAIN logits[0] : \A x \in DOMAIN logits[0][y] :
      /\ IsFirstMax([i \in DOMAIN logits |-> preds[i + 1][y][x]], segment_assignment[y][x])
      /\ \A i \in DOMAIN logits :
           /\ logits[i][y][x] # 0 => i = segment_assignment[y][x]
           /\ preds[1][y][x] >= BlankThreshold => logits[i][y][x] = 0

\* a pixel of a tie, left to the blank class, and a pixel a class lost to a
\* blank of .5
PixelsMasked ==
  /\ Masked
  /\ \E y \in DOMAIN logits[0] : \E x \in DOMAIN logits[0][y] :
       preds[1][y][x] = preds[2][y][x] /\ logits[0][y][x] # 0
  /\ \E y \in DOMAIN logits[0] : \E x \in DOMAIN logits[0][y] :
       preds[1][y][x] = BlankThreshold /\ preds[2][y][x] > preds[1][y][x]

\* C8 as stated: the heatmaps of the result are the arrays of the detector,
\* one for each class and unchanged.
HeatmapsAreRaw == pc = "done" => result.heatmaps = preds

InPadded(vb, x, y) ==
  /\ vb[2] <= y
  /\ y < vb[4]
  /\ vb[1] <= x
  /\ x < Min(Width(heatmaps[1]), vb[3] + vertical_line_width)

\* C9 as stated: after the separators are zeroed, every class is zero in
\* the rows of each separator from its left edge to its right edge padded
\* and clamped to the heatmap's width, and unchanged everywhere else.
SeparatorsZeroedToWidth ==
  pc = "blanks" =>
    \A i \in DOMAIN logits : \A y \in DOMAIN logits[i] : \A x \in DOMAIN logits[i][y] :
      logits[i][y][x] =
        IF \E k \in 1..Len(vertical_line_bboxes) : InPadded(vertical_line_bboxes[k], x, y)
          THEN 0
          ELSE heatmaps[i + 1][y][x]

\* C10: before the boxes are rescaled, every line is either claimed once, by
\* a box that is in new_boxes once, and has no box of its own, or is claimed
\* by no box and has one box of its own in new_boxes, with the label Text,
\* the confidence .5 and the line's polygon.
EveryLineAccounted ==
  pc = "rescale" =>
    \A l \in 1..Len(line_bboxes) :
      LET own == {j \in 1..Len(new_boxes) : new_boxes[j].id = <<"line", l>>}
      IN  \/ /\ Cardinality(ClaimEntries(l)) = 1
             /\ \A b \in ClaimedBy(l) :
                  Cardinality(Places(new_boxes, detected_boxes[b])) = 1
             /\ own = {}
          \/ /\ ClaimEntries(l) = {}
             /\ Cardinality(own) = 1
             /\ \A j \in own :
                  /\ new_boxes[j].label = "Text"
                  /\ new_boxes[j].confidence = [num |-> 5, den |-> 1]
                  /\ new_boxes[j].polygon = line_bboxes[l]

\* one line claimed by a Text box and one line left to itself
LinesClaimedAndLeft ==
  /\ pc = "rescale"
  /\ \E l, m \in 1..Len(line_bboxes) :
       /\ \E b \in ClaimedBy(l) : detected_boxes[b].label = "Text"
       /\ ClaimEntries(m) = {}

====
